---- MODULE Spec2Model ----
(***************************************************************************)
(* Fragrance Scout (src/fragrance_scout.py): the fetch -> flair filter ->  *)
(* dedupe check -> classify -> enrich -> store -> mark -> persist pipeline *)
(* of FragranceScout, its durable tracking file and found-posts blob, the  *)
(* process-wide found_posts list, and the threads that run scan cycles.    *)
(*                                                                         *)
(* Text is modelled as sequences of one-character strings.  Timestamps    *)
(* are readings of a wall clock that never runs backwards; two readings    *)
(* may be equal.  A FeedItem's content is a function of its identifier.    *)
(*                                                                         *)
(* Spec runs one cycle at a time with restarts, SpecLedger the trimming of *)
(* the ledger, SpecRace overlapping cycles, SpecTrigger the /scan          *)
(* endpoint, SpecCalls single calls of the fetch and of the classifier,    *)
(* SpecCycle cycles with failing fetches and posts, SpecLoop the           *)
(* background loop under fairness, SpecToken the Reddit OAuth token.       *)
(***************************************************************************)
EXTENDS Integers, Sequences, FiniteSets, TLC

\* ------------------------------------------------------------------ bounds

\* Capacity of the tracking file; stands for the 1000 of _save_tracking
\* (src/fragrance_scout.py:157,159), scaled so that eviction is reachable.
MaxTracked == 1
\* Largest clock reading.
MaxClock == 1
\* Longest listing a feed returns (the source asks for limit=20).
MaxFeedLen == 2
\* Longest found_posts list the classifier is allowed to extend.
MaxPosts == 3
\* Most marks of one orchestrator in SpecLedger.
MaxMarks == 5
\* Longest reply of the local backend, in lexical units.
MaxText == 4
\* Last reading of time.time() in SpecToken.
MaxTime == 4

\* ------------------------------------------------------------- text helpers

UpperChars == <<"A","B","C","D","E","F","G","H","I","J","K","L","M",
                "N","O","P","Q","R","S","T","U","V","W","X","Y","Z">>
LowerChars == <<"a","b","c","d","e","f","g","h","i","j","k","l","m",
                "n","o","p","q","r","s","t","u","v","w","x","y","z">>

\* str.lower() on one character.
LowerChar(c) ==
    IF \E k \in 1..26 : UpperChars[k] = c
    THEN LowerChars[CHOOSE k \in 1..26 : UpperChars[k] = c]
    ELSE c

\* str.lower()
Lower(s) == [k \in 1..Len(s) |-> LowerChar(s[k])]

\* Python's `needle in hay` on strings.
Contains(hay, needle) ==
    \E k \in 0..(Len(hay) - Len(needle)) :
        \A j \in 1..Len(needle) : hay[k + j] = needle[j]

\* A nullable JSON string: None, or a text.
None == [isNone |-> TRUE, text |-> <<>>]
Str(s) == [isNone |-> FALSE, text |-> s]

\* `v or ''`
OrEmpty(v) == IF v.isNone THEN <<>> ELSE v.text

\* ------------------------------------------------------------- flair filter

skip_flairs ==
    << <<"r","e","c","o","m","m","e","n","d","a","t","i","o","n">>,
       <<"c","o","l","l","e","c","t","i","o","n"," ","p","i","c","s">>,
       <<"b","o","t","t","l","e"," ","i","d","e","n","t","i","f","i","c","a","t","i","o","n">>,
       <<"m","o","d"," ","p","o","s","t">>,
       <<"l","o","o","k"," ","w","h","a","t"," ","i"," ","f","o","u","n","d">> >>

\* any(skip_flair in flair.lower() for skip_flair in skip_flairs)
ShouldSkipCaseSensitive(flair) ==
    \E k \in 1..Len(skip_flairs) : Contains(flair, skip_flairs[k])
ShouldSkip(flair) ==
    \E k \in 1..Len(skip_flairs) : Contains(Lower(flair), skip_flairs[k])

\* ------------------------------------------------------------- the feed

\* Identifiers of posts that pass the flair filter, and of posts that do not.
PassIds == 1..(MaxTracked + 1)
RecoId == 101
ModId == 102
AllIds == PassIds \cup {RecoId, ModId}

FlairOf(i) ==
    IF i = RecoId THEN Str(<<"R","e","c","o","m","m","e","n","d","a","t","i","o","n">>)
    ELSE IF i = ModId THEN Str(<<"W","e","e","k","l","y"," ","M","O","D"," ","P","o","s","t">>)
    ELSE IF i % 3 = 1 THEN None
    ELSE IF i % 3 = 2 THEN Str(<<>>)
    ELSE Str(<<"R","e","v","i","e","w">>)

\* One child of data.children of a listing: the fields _fetch_reddit_json reads.
Child(i) ==
    [name |-> i,
     title |-> <<"R","e","v","i","e","w"," ", ToString(i)>>,
     permalink |-> <<"/","r","/", ToString(i)>>,
     author |-> <<"u", ToString(i)>>,
     selftext |-> <<"<","p",">","o","a","k"," ", ToString(i), "<","/","p",">">>,
     link_flair_text |-> FlairOf(i)]

\* The post dict built from one child.
PostOf(child) ==
    [id |-> child.name,
     title |-> child.title,
     link |-> <<"h","t","t","p","s",":","/","/","r","e","d","d","i","t",".","c","o","m">>
              \o child.permalink,
     author |-> child.author,
     summary |-> child.selftext,
     flair |-> OrEmpty(child.link_flair_text)]

\* The loop over data.children: skipped flairs dropped, order kept.
RECURSIVE FilterChildren(_)
FilterChildren(children) ==
    IF children = <<>> THEN <<>>
    ELSE LET c == Head(children)
             rest == FilterChildren(Tail(children))
         IN IF ShouldSkip(OrEmpty(c.link_flair_text)) THEN rest
            ELSE <<PostOf(c)>> \o rest

\* Listings a feed can return: identifiers without repetition.
Listings ==
    UNION {{s \in [1..n -> AllIds] : \A a, b \in 1..n : a # b => s[a] # s[b]}
           : n \in 0..MaxFeedLen}

ChildrenOf(listing) == [k \in 1..Len(listing) |-> Child(listing[k])]

\* ------------------------------------------------------------- MLStripper

\* HTMLParser.feed + handle_data: the text outside <...> tags.
RECURSIVE StripFrom(_, _)
StripFrom(s, inTag) ==
    IF s = <<>> THEN <<>>
    ELSE IF inTag THEN StripFrom(Tail(s), Head(s) # ">")
    ELSE IF Head(s) = "<" THEN StripFrom(Tail(s), TRUE)
    ELSE <<Head(s)>> \o StripFrom(Tail(s), FALSE)

StripTags(summary) == StripFrom(summary, FALSE)

\* ------------------------------------------------------------- the classifier

\* What json.loads can hand back as the verdict dict: `keys` are the keys present,
\* `interesting` is "true", "false", or "str" (a non-empty JSON string).
Verdict(keys, interesting, reason) ==
    [some |-> TRUE, keys |-> keys, interesting |-> interesting, reason |-> reason]

\* Python's None as the value of llm_result.
Absent == [some |-> FALSE, keys |-> {}, interesting |-> "false", reason |-> ""]
EmptyDict == Verdict({}, "false", "")
BothKeys == {"interesting", "reason"}
AcceptReason == "detailed niche review"
RejectReason == "designer brand"

\* The verdicts the response schema of both backends allows, and objects a
\* backend that ignores the schema can also return.
SchemaVerdicts ==
    {Verdict(BothKeys, "true", AcceptReason), Verdict(BothKeys, "false", RejectReason)}
LooseVerdicts ==
    SchemaVerdicts
    \cup {Verdict({"interesting"}, "true", ""),
          Verdict(BothKeys, "str", AcceptReason),
          EmptyDict}

\* What one call of the backend (after its own retries) ends in.
Failures ==
    {[kind |-> k, value |-> Absent] : k \in {"error", "timeout", "quota", "malformed"}}
BackendOutcomes == Failures \cup {[kind |-> "json", value |-> v] : v \in SchemaVerdicts}
LooseOutcomes == Failures \cup {[kind |-> "json", value |-> v] : v \in LooseVerdicts}

\* _query_llm: the parsed object, or None on every exception.
query_llm_fail_open(out) ==
    IF out.kind = "json" THEN out.value ELSE Verdict({"interesting"}, "true", "")
query_llm(out) == IF out.kind = "json" THEN out.value ELSE Absent

\* `not llm_result` is false: a non-empty dict.
Truthy(r) == r.some /\ r.keys # {}

\* llm_result.get("interesting", False), as a condition.
GetInterestingKeyPresent(r) == "interesting" \in r.keys
GetInteresting(r) == "interesting" \in r.keys /\ r.interesting \in {"true", "str"}

\* llm_result.get('reason', 'N/A')
GetReason(r) == IF "reason" \in r.keys THEN r.reason ELSE "N/A"

\* _fetch_user_profile: a profile dict, or None on any failure.
NoProfile == [some |-> FALSE, total_karma |-> 0]
AProfile == [some |-> TRUE, total_karma |-> 7]
Profiles == {NoProfile, AProfile}

\* The post_data dict appended to found_posts (of its keys, the timestamp,
\* published and subreddit ones are left out: nothing reads them).
PostDataUnstripped(post, r, profile) ==
    [title |-> post.title,
     author |-> post.author,
     link |-> post.link,
     reason |-> GetReason(r),
     body |-> post.summary,
     flair |-> post.flair,
     author_profile |-> IF profile.some THEN profile ELSE NoProfile]
PostData(post, r, profile) ==
    [title |-> post.title,
     author |-> post.author,
     link |-> post.link,
     reason |-> GetReason(r),
     body |-> StripTags(post.summary),
     flair |-> post.flair,
     author_profile |-> IF profile.some THEN profile ELSE NoProfile]

\* ------------------------------------------------------------- retries

\* tenacity's @retry with reraise=True: outs[n] is what the n-th attempt ends
\* in; the attempt is repeated when its outcome is of a kind the decorator
\* retries and fewer than `stop` attempts were made; the call ends as its last
\* attempt did, after `requests` attempts.
RECURSIVE Retrying(_, _, _, _)
Retrying(outs, n, retryKinds, stop) ==
    IF outs[n].kind \in retryKinds /\ n < stop
    THEN Retrying(outs, n + 1, retryKinds, stop)
    ELSE [requests |-> n, out |-> outs[n]]

\* stop_after_attempt(3) of the two decorators.
FeedAttempts == 3
GeminiAttempts == 3

\* What one request to a feed ends in: raise_for_status raises HTTPError (429
\* after the Retry-After sleep, 5xx, 401), requests.get raises (timeout,
\* connection), or the response has status 200 and a body that is not JSON,
\* has no data.children, or is a listing.
HTTPErrorKinds == {"429", "500", "401"}
NetworkErrorKinds == {"timeout", "connection"}
BodyErrorKinds == {"not json", "no children"}
FeedFailureKinds == HTTPErrorKinds \cup NetworkErrorKinds \cup BodyErrorKinds
FeedOutcomes(listings) ==
    {[kind |-> k, children |-> <<>>] : k \in FeedFailureKinds}
    \cup {[kind |-> "ok", children |-> c] : c \in listings}

\* _fetch_reddit_json_with_retry: retry_if_exception_type(HTTPError).
fetch_reddit_json_with_retry_uncapped(outs) ==
    Retrying(outs, 1, HTTPErrorKinds, FeedAttempts + 1)
fetch_reddit_json_with_retry(outs) ==
    Retrying(outs, 1, HTTPErrorKinds, FeedAttempts)

\* The children _fetch_reddit_json loops over: those of the listing, none when
\* the fetch failed (the two except clauses and the return of line 329).
ChildrenSeen(outs) ==
    LET r == fetch_reddit_json_with_retry(outs)
    IN IF r.out.kind = "ok" THEN r.out.children ELSE <<>>

\* Lines 312-316: the requests of the fetch after which time.sleep(retry_after)
\* ran, those answered with 429.
RetryAfterSleeps(outs) ==
    {n \in 1..fetch_reddit_json_with_retry(outs).requests : outs[n].kind = "429"}

\* _fetch_reddit_json as a function of what the requests end in: the posts it
\* returns, the requests it made, the requests it slept Retry-After behind,
\* whether it failed, and whether it raised (its try block covers all of its
\* body, so it never does).
fetch_reddit_json_result_raising(outs) ==
    LET r == fetch_reddit_json_with_retry(outs)
    IN [posts |-> FilterChildren(ChildrenOf(ChildrenSeen(outs))),
        requests |-> r.requests,
        slept |-> RetryAfterSleeps(outs),
        failed |-> r.out.kind # "ok",
        raised |-> r.out.kind # "ok"]
fetch_reddit_json_result(outs) ==
    LET r == fetch_reddit_json_with_retry(outs)
    IN [posts |-> FilterChildren(ChildrenOf(ChildrenSeen(outs))),
        requests |-> r.requests,
        slept |-> RetryAfterSleeps(outs),
        failed |-> r.out.kind # "ok",
        raised |-> FALSE]

\* Requests that are all answered with one of the given listings.
Served(listings) ==
    {[k \in 1..(FeedAttempts + 1) |-> [kind |-> "ok", children |-> c]] : c \in listings}

\* _query_gemini_with_retry: @retry without a retry argument retries on every
\* exception.
GeminiRetryKinds == {f.kind : f \in Failures}
query_gemini_with_retry(outs) == Retrying(outs, 1, GeminiRetryKinds, GeminiAttempts)

\* _query_llm with USE_GEMINI: the verdict, and the backend requests made.
query_llm_gemini(outs) ==
    LET r == query_gemini_with_retry(outs)
    IN [value |-> query_llm(r.out), requests |-> r.requests]

\* ------------------------------------------------------------- the local backend

\* The content of a local model's reply, as a sequence of lexical units: the
\* braces, "T" for the members "interesting": true, "reason": "..." of a
\* verdict, "7" for a digit, "x" for any other text, the two think tags, a
\* code fence (three backquotes) and a newline.
Units == {"{", "}", "T", "7", "x", "<think>", "</think>", "fence", "\n"}

\* json.loads gave a number: truthy, and not a dict.
JsonNumber == [some |-> TRUE, number |-> 7]
IsDict(r) == "keys" \in DOMAIN r

\* str.strip()
RECURSIVE LStrip(_)
LStrip(t) == IF t # <<>> /\ Head(t) = "\n" THEN LStrip(Tail(t)) ELSE t
RECURSIVE RStrip(_)
RStrip(t) ==
    IF t # <<>> /\ t[Len(t)] = "\n" THEN RStrip(SubSeq(t, 1, Len(t) - 1)) ELSE t
StripWs(t) == RStrip(LStrip(t))

\* The position of the first, and of the last, occurrence of a unit; 0 if none.
FirstIdx(t, u) ==
    IF \E k \in DOMAIN t : t[k] = u
    THEN CHOOSE k \in DOMAIN t : t[k] = u /\ \A j \in 1..(k - 1) : t[j] # u
    ELSE 0
LastIdx(t, u) ==
    IF \E k \in DOMAIN t : t[k] = u
    THEN CHOOSE k \in DOMAIN t : t[k] = u /\ \A j \in (k + 1)..Len(t) : t[j] # u
    ELSE 0

\* re.sub(r'<think>.*?</think>', '', ..., flags=re.DOTALL)
RECURSIVE RemoveThink(_)
RemoveThink(t) ==
    LET i == FirstIdx(t, "<think>")
        rest == SubSeq(t, i + 1, Len(t))
        j == FirstIdx(rest, "</think>")
    IN IF i = 0 \/ j = 0 THEN t
       ELSE SubSeq(t, 1, i - 1) \o RemoveThink(SubSeq(rest, j + 1, Len(rest)))

\* Lines 482-484: a reply that starts with a fence loses its first line and
\* what follows its last fence; split("\n", 1)[1] raises without a newline.
FenceRaises(t) == t # <<>> /\ Head(t) = "fence" /\ FirstIdx(t, "\n") = 0
RemoveFence(t) ==
    IF t # <<>> /\ Head(t) = "fence"
    THEN LET a == SubSeq(t, FirstIdx(t, "\n") + 1, Len(t))
             k == LastIdx(a, "fence")
         IN StripWs(IF k = 0 THEN a ELSE SubSeq(a, 1, k - 1))
    ELSE t

\* re.search(r'\{.*\}', ..., re.DOTALL): from the first "{" to the last "}".
ExtractJson(t) ==
    LET i == FirstIdx(t, "{")
        j == LastIdx(t, "}")
    IN IF i = 0 \/ j < i THEN t ELSE SubSeq(t, i, j)

\* json.loads: an object with the verdict's members, an empty object or a
\* number, with whitespace around its tokens; anything else raises.
json_loads(t) ==
    LET body == StripWs(t)
        tokens == SelectSeq(body, LAMBDA u : u # "\n")
    IN IF tokens = <<"{", "T", "}">>
       THEN [ok |-> TRUE, value |-> Verdict(BothKeys, "true", AcceptReason)]
       ELSE IF tokens = <<"{", "}">>
       THEN [ok |-> TRUE, value |-> EmptyDict]
       ELSE IF body # <<>> /\ \A k \in DOMAIN body : body[k] = "7"
       THEN [ok |-> TRUE, value |-> JsonNumber]
       ELSE [ok |-> FALSE, value |-> Absent]

\* The reply without think sections and fences (lines 475-484).
Cleaned(content) == RemoveFence(StripWs(RemoveThink(StripWs(content))))

\* _query_llm with the local backend, lines 474-499, as a function of the
\* content of the reply: None when a step raises or nothing is left.
query_llm_local(content) ==
    IF FenceRaises(StripWs(RemoveThink(StripWs(content)))) THEN Absent
    ELSE LET assistant_message == ExtractJson(Cleaned(content))
         IN IF assistant_message = <<>> THEN Absent
            ELSE json_loads(assistant_message).value

\* ------------------------------------------------------------- the ledger

Entry(id, ts) == [id |-> id, ts |-> ts]
IdsOf(d) == {d[k].id : k \in DOMAIN d}

\* post_id in self.sent_posts
SeenNever(d, id) == FALSE
Seen(d, id) == id \in IdsOf(d)

\* self.sent_posts[post_id] = ts on an insertion-ordered dict.
Put(d, id, ts) ==
    IF Seen(d, id)
    THEN [k \in DOMAIN d |-> IF d[k].id = id THEN Entry(id, ts) ELSE d[k]]
    ELSE Append(d, Entry(id, ts))

\* sorted(items, key=timestamp): stable, ascending.
RECURSIVE InsertByTs(_, _)
InsertByTs(sorted, e) ==
    IF sorted = <<>> THEN <<e>>
    ELSE LET last == sorted[Len(sorted)]
         IN IF last.ts <= e.ts THEN Append(sorted, e)
            ELSE Append(InsertByTs(SubSeq(sorted, 1, Len(sorted) - 1), e), last)

RECURSIVE SortedByTs(_)
SortedByTs(d) ==
    IF d = <<>> THEN <<>>
    ELSE InsertByTs(SortedByTs(SubSeq(d, 1, Len(d) - 1)), d[Len(d)])

\* The trimming of _save_tracking: more than the capacity keeps the last ones
\* of the sorted items.
TrimOldestKept(d) ==
    IF Len(d) > MaxTracked THEN SubSeq(SortedByTs(d), 1, MaxTracked) ELSE d
Trim(d) ==
    IF Len(d) > MaxTracked
    THEN LET s == SortedByTs(d) IN SubSeq(s, Len(s) - MaxTracked + 1, Len(s))
    ELSE d

\* ------------------------------------------------------------- state

NumFeeds == 2
Orchs == {"o1", "o2"}
NotQueried == [some |-> FALSE, keys |-> {"not queried"}, interesting |-> "false", reason |-> ""]

VARIABLES
    gcs,            \* GCS_BUCKET is set (cloud mode)
    blobTracking,   \* content of TRACKING_FILE (file or blob): the entries in order
    blobPosts,      \* content of POSTS_FILE in the bucket: the "posts" list
    found_posts,    \* the module-level list
    clock,          \* last reading of the wall clock
    pc,             \* per thread: position in FragranceScout's code
    role,           \* per thread: "bg" (run_scout_background) or "scan" (run_scan_async)
    sent_posts,     \* per orchestrator: self.sent_posts
    feed,           \* per orchestrator: index into JSON_FEEDS
    queue,          \* per orchestrator: posts of the current feed not yet finished
    llm_result,     \* per orchestrator: the verdict of the post being processed
    ret,            \* per orchestrator: what _process_post returned
    ops,            \* per orchestrator: store/ledger operations done in this _process_post
    listing,        \* per orchestrator: identifiers of the children last fetched
    outcome,        \* per orchestrator: how the backend call of this _process_post ended
    evicted,        \* some _save_tracking has dropped entries
    marks,          \* every entry marked so far, in order (kept by SpecLedger only)
    SCAN_AUTH_TOKEN, \* the configured shared secret of /scan ("" when not set)
    response,       \* the last /scan request and its status (kept by SpecTrigger only)
    fetches,        \* the fetches of the running cycle, in order (kept by SpecCycle only)
    call,           \* one call of a function and its result (SpecCalls only)
    REDDIT_CREDENTIALS,   \* REDDIT_CLIENT_ID and REDDIT_CLIENT_SECRET are both set
    reddit_token,         \* per orchestrator: self.reddit_token
    reddit_token_expires, \* per orchestrator: self.reddit_token_expires
    time,                 \* time.time(), in units of 150 seconds (SpecToken only)
    request         \* the last request to Reddit and its Authorization (SpecToken only)

vars == <<gcs, blobTracking, blobPosts, found_posts, clock, pc, role, sent_posts,
          feed, queue, llm_result, ret, ops, listing, outcome, evicted, marks,
          SCAN_AUTH_TOKEN, response, fetches, call, REDDIT_CREDENTIALS, reddit_token,
          reddit_token_expires, time, request>>

tokenVars == <<REDDIT_CREDENTIALS, reddit_token, reddit_token_expires, time, request>>

auxVars == <<SCAN_AUTH_TOKEN, response, fetches, call, tokenVars>>

programVars == <<gcs, blobTracking, blobPosts, found_posts, clock, pc, role, sent_posts,
                 feed, queue, llm_result, ret, ops, listing, outcome, evicted>>

orchVars == <<sent_posts, feed, queue, llm_result, ret, ops, listing, outcome>>

Fresh(f) == [o \in Orchs |-> f]

\* No /scan request answered yet, no function called.
NoResponse == [status |-> 0]
NoCall == [fn |-> "none"]

\* self.reddit_token is None or a token, known by the time it was issued at.
NoToken == [held |-> FALSE, issued |-> 0]
Token(t) == [held |-> TRUE, issued |-> t]
NoRequest == [n |-> 0, o |-> "none"]

\* No Reddit credentials (the defaults of lines 49-50): no token is ever asked
\* for, and lines 114-115 leave every orchestrator without one.
TokenInit ==
    /\ REDDIT_CREDENTIALS = FALSE
    /\ reddit_token = Fresh(NoToken)
    /\ reddit_token_expires = Fresh(0)
    /\ time = 0
    /\ request = NoRequest

\* The endpoint is unprotected (the default of line 46) and the histories empty.
AuxInit ==
    /\ SCAN_AUTH_TOKEN = <<>>
    /\ response = NoResponse
    /\ fetches = <<>>
    /\ call = NoCall
    /\ TokenInit

\* main(): cloud mode serves /scan only; local mode starts the background thread.
BootPc(cloud) == [o \in Orchs |-> IF ~cloud /\ o = "o1" THEN "new" ELSE "none"]
BootRole(cloud) == [o \in Orchs |-> IF ~cloud /\ o = "o1" THEN "bg" ELSE "scan"]

InitProgram ==
    /\ gcs \in BOOLEAN
    /\ blobTracking = <<>>
    /\ blobPosts = <<>>
    /\ found_posts = <<>>
    /\ clock = 0
    /\ evicted = FALSE
    /\ pc = BootPc(gcs)
    /\ role = BootRole(gcs)
    /\ sent_posts = Fresh(<<>>)
    /\ feed = Fresh(1)
    /\ queue = Fresh(<<>>)
    /\ llm_result = Fresh(NotQueried)
    /\ ret = Fresh(FALSE)
    /\ ops = Fresh(<<>>)
    /\ listing = Fresh(<<>>)
    /\ outcome = Fresh("")
    /\ marks = <<>>

Init == InitProgram /\ AuxInit

Post(o) == Head(queue[o])

\* ------------------------------------------------------------- threads

\* A request to /scan carries the X-Auth-Token header and the token query
\* parameter, each absent or a text.
Secret == <<"s", "3">>
Wrong == <<"s">>
TokenValues == {None, Str(<<>>), Str(Secret), Str(Wrong)}
Requests == [header : TokenValues, token : TokenValues]

\* Python's `a or b` on nullable texts.
Or(a, b) == IF ~a.isNone /\ a.text # <<>> THEN a ELSE b

\* request.headers.get('X-Auth-Token') or request.args.get('token')
AuthTokenQueryFirst(req) == Or(req.token, req.header)
AuthToken(req) == Or(req.header, req.token)

\* Lines 1005-1009: a secret is configured and the presented token differs.
UnauthorizedIfPresented(req) ==
    /\ SCAN_AUTH_TOKEN # <<>>
    /\ ~AuthToken(req).isNone
    /\ AuthToken(req) # Str(SCAN_AUTH_TOKEN)
Unauthorized(req) ==
    /\ SCAN_AUTH_TOKEN # <<>>
    /\ AuthToken(req) # Str(SCAN_AUTH_TOKEN)

\* The status of the response: abort(401), or the dict of line 1019.
StatusOf(req) == IF Unauthorized(req) THEN 401 ELSE 200

\* scan() as if a cycle in flight made it answer without starting a thread.
scan_single_flight(o, req) ==
    /\ IF Unauthorized(req) \/ \E p \in Orchs : pc[p] # "none"
       THEN UNCHANGED <<pc, role>>
       ELSE /\ pc[o] = "none"
            /\ o = "o2" => pc["o1"] # "none"
            /\ pc' = [pc EXCEPT ![o] = "new"]
            /\ role' = [role EXCEPT ![o] = "scan"]
    /\ UNCHANGED <<marks, SCAN_AUTH_TOKEN, tokenVars, fetches, call, gcs, blobTracking, blobPosts,
                   found_posts, clock, orchVars, evicted>>

\* scan(): a request to /scan is refused, or starts a thread that will run
\* run_scan_async (the thread takes the first unused name).  The response is
\* recorded by the specification that keeps it.
scan(o, req) ==
    /\ IF Unauthorized(req)
       THEN UNCHANGED <<pc, role>>
       ELSE /\ pc[o] = "none"
            /\ o = "o2" => pc["o1"] # "none"
            /\ pc' = [pc EXCEPT ![o] = "new"]
            /\ role' = [role EXCEPT ![o] = "scan"]
    /\ UNCHANGED <<marks, SCAN_AUTH_TOKEN, tokenVars, fetches, call, gcs, blobTracking, blobPosts,
                   found_posts, clock, orchVars, evicted>>

\* _load_tracking: the stored dict, {} when there is none.
load_tracking_nothing == <<>>
load_tracking == blobTracking

\* _load_found_posts: in cloud mode the module-level list is rebound to the
\* stored "posts"; in local mode it is left alone.
load_found_posts == IF gcs THEN blobPosts ELSE found_posts

\* FragranceScout.__init__, then the thread enters its first cycle.
Construct(o) ==
    /\ pc[o] = "new"
    /\ sent_posts' = [sent_posts EXCEPT ![o] = load_tracking]
    /\ found_posts' = load_found_posts
    /\ feed' = [feed EXCEPT ![o] = 1]
    /\ pc' = [pc EXCEPT ![o] = "fetch"]
    /\ UNCHANGED <<marks, auxVars, gcs, blobTracking, blobPosts, clock, role, queue, llm_result, ret,
                   ops, listing, outcome, evicted>>

\* ------------------------------------------------------------- run_once

\* Where the thread goes when the posts of the current feed are finished: the
\* next feed, or the end of the cycle (run_forever sleeps, run_scan_async ends).
AfterFeed(o, k) ==
    IF k < NumFeeds THEN "fetch"
    ELSE IF role[o] = "bg" THEN "sleep" ELSE "none"

\* The thread of run_scan_async ends, and its orchestrator with it.
Ends(o) == AfterFeed(o, feed[o]) = "none"

FeedDone(o) ==
    /\ feed' = [feed EXCEPT ![o] = IF feed[o] < NumFeeds THEN feed[o] + 1 ELSE 1]
    /\ pc' = [pc EXCEPT ![o] = AfterFeed(o, feed[o])]
    /\ sent_posts' = [sent_posts EXCEPT ![o] = IF Ends(o) THEN <<>> ELSE sent_posts[o]]
    /\ listing' = [listing EXCEPT ![o] = <<>>]

\* An exception leaves run_once: run_forever catches it and sleeps (lines
\* 610-616); the thread of run_scan_async ends.
AbortKillsLoop(o) ==
    /\ pc' = [pc EXCEPT ![o] = "none"]
    /\ feed' = [feed EXCEPT ![o] = 1]
    /\ queue' = [queue EXCEPT ![o] = <<>>]
    /\ sent_posts' = [sent_posts EXCEPT ![o] = <<>>]
    /\ listing' = [listing EXCEPT ![o] = <<>>]
Abort(o) ==
    /\ pc' = [pc EXCEPT ![o] = IF role[o] = "bg" THEN "sleep" ELSE "none"]
    /\ feed' = [feed EXCEPT ![o] = 1]
    /\ queue' = [queue EXCEPT ![o] = <<>>]
    /\ sent_posts' = [sent_posts EXCEPT ![o] = IF role[o] = "bg" THEN sent_posts[o] ELSE <<>>]
    /\ listing' = [listing EXCEPT ![o] = <<>>]

\* posts = self._fetch_reddit_json(feed_url), line 584: the filtered posts of
\* the listing, none after a failure.  `inputs` are the ways the requests of
\* the fetch can end.  The history of fetches is kept by the specification
\* that records it.
fetch_reddit_json(o, inputs) ==
    /\ pc[o] = "fetch"
    /\ \E outs \in inputs :
         LET res == fetch_reddit_json_result(outs)
         IN IF res.raised
            THEN Abort(o)
            ELSE /\ queue' = [queue EXCEPT ![o] = res.posts]
                 /\ IF res.posts = <<>>
                    THEN FeedDone(o)
                    ELSE /\ pc' = [pc EXCEPT ![o] = "check"]
                         /\ listing' = [listing EXCEPT ![o] = ChildrenSeen(outs)]
                         /\ UNCHANGED <<feed, sent_posts>>
    /\ UNCHANGED <<marks, SCAN_AUTH_TOKEN, tokenVars, response, call, gcs, blobTracking, blobPosts,
                   found_posts, clock, role, llm_result, ret, ops, outcome, evicted>>

\* The fetch where no history of fetches is kept.
Fetch(o, inputs) == fetch_reddit_json(o, inputs) /\ UNCHANGED fetches

\* _process_post, lines 503-509: the dedupe check.
process_post_check(o) ==
    /\ pc[o] = "check"
    /\ IF Seen(sent_posts[o], Post(o).id)
       THEN /\ pc' = [pc EXCEPT ![o] = "next"]
            /\ ret' = [ret EXCEPT ![o] = FALSE]
       ELSE /\ pc' = [pc EXCEPT ![o] = "query"]
            /\ UNCHANGED ret
    /\ UNCHANGED <<marks, auxVars, gcs, blobTracking, blobPosts, found_posts, clock, role, sent_posts,
                   feed, queue, llm_result, ops, listing, outcome, evicted>>

\* The classifier may extend found_posts only up to MaxPosts.
Allowed(r) == Truthy(r) /\ GetInteresting(r) => Len(found_posts) < MaxPosts

\* _process_post, lines 535-541: the classifier call and the branch on its
\* result.  On a result that is not a dict, llm_result.get raises and the
\* except of run_once (line 592) ends the processing of this post.
process_post_query(o, outcomes) ==
    /\ pc[o] = "query"
    /\ \E out \in outcomes :
         LET r == query_llm(out)
         IN /\ llm_result' = [llm_result EXCEPT ![o] = r]
            /\ outcome' = [outcome EXCEPT ![o] = out.kind]
            /\ IF ~IsDict(r)
               THEN /\ pc' = [pc EXCEPT ![o] = "next"]
                    /\ UNCHANGED ret
               ELSE /\ Allowed(r)
                    /\ IF Truthy(r) /\ GetInteresting(r)
                       THEN /\ pc' = [pc EXCEPT ![o] = "store"]
                            /\ UNCHANGED ret
                       ELSE /\ pc' = [pc EXCEPT ![o] = "next"]
                            /\ ret' = [ret EXCEPT ![o] = FALSE]
    /\ UNCHANGED <<marks, auxVars, gcs, blobTracking, blobPosts, found_posts, clock, role, sent_posts,
                   feed, queue, ops, listing, evicted>>

\* _process_post, lines 545-563: enrichment, then found_posts.append(post_data).
process_post_append_needs_profile(o, profiles) ==
    /\ pc[o] = "store"
    /\ \E profile \in profiles :
         IF profile.some
         THEN /\ found_posts' = Append(found_posts, PostData(Post(o), llm_result[o], profile))
              /\ ops' = [ops EXCEPT ![o] = Append(ops[o], "append")]
              /\ pc' = [pc EXCEPT ![o] = "mark"]
         ELSE /\ pc' = [pc EXCEPT ![o] = "next"]
              /\ UNCHANGED <<found_posts, ops>>
    /\ UNCHANGED <<marks, auxVars, gcs, blobTracking, blobPosts, clock, role, sent_posts, feed, queue,
                   llm_result, ret, listing, outcome, evicted>>
process_post_append(o, profiles) ==
    /\ pc[o] = "store"
    /\ \E profile \in profiles :
         found_posts' = Append(found_posts, PostData(Post(o), llm_result[o], profile))
    /\ ops' = [ops EXCEPT ![o] = Append(ops[o], "append")]
    /\ pc' = [pc EXCEPT ![o] = "mark"]
    /\ UNCHANGED <<marks, auxVars, gcs, blobTracking, blobPosts, clock, role, sent_posts, feed, queue,
                   llm_result, ret, listing, outcome, evicted>>

\* Readings of a clock that does not run backwards.
Readings == clock..(IF clock < MaxClock THEN clock + 1 ELSE clock)

\* _process_post, line 567: self.sent_posts[post_id] = now.
process_post_mark_unsaved(o, readings) ==
    /\ pc[o] = "mark"
    /\ \E now \in readings :
         /\ clock' = now
         /\ sent_posts' = [sent_posts EXCEPT ![o] = Put(sent_posts[o], Post(o).id, now)]
    /\ ops' = [ops EXCEPT ![o] = Append(ops[o], "mark")]
    /\ ret' = [ret EXCEPT ![o] = TRUE]
    /\ pc' = [pc EXCEPT ![o] = "next"]
    /\ UNCHANGED <<auxVars, gcs, blobTracking, blobPosts, found_posts, role, feed, queue,
                   llm_result, listing, outcome, evicted>>
process_post_mark(o, readings) ==
    /\ pc[o] = "mark"
    /\ \E now \in readings :
         /\ clock' = now
         /\ sent_posts' = [sent_posts EXCEPT ![o] = Put(sent_posts[o], Post(o).id, now)]
    /\ ops' = [ops EXCEPT ![o] = Append(ops[o], "mark")]
    /\ pc' = [pc EXCEPT ![o] = "save_tracking"]
    /\ UNCHANGED <<auxVars, gcs, blobTracking, blobPosts, found_posts, role, feed, queue,
                   llm_result, ret, listing, outcome, evicted>>

\* _save_tracking (line 568): trim, then write the dict.
save_tracking_merging(o) ==
    /\ pc[o] = "save_tracking"
    /\ sent_posts' = [sent_posts EXCEPT ![o] = Trim(sent_posts[o])]
    /\ blobTracking' =
          SelectSeq(blobTracking, LAMBDA x : x.id \notin IdsOf(Trim(sent_posts[o])))
          \o Trim(sent_posts[o])
    /\ evicted' = (evicted \/ Len(sent_posts[o]) > MaxTracked)
    /\ ops' = [ops EXCEPT ![o] = Append(ops[o], "save_tracking")]
    /\ pc' = [pc EXCEPT ![o] = "save_found_posts"]
    /\ UNCHANGED <<marks, auxVars, gcs, blobPosts, found_posts, clock, role, feed, queue, llm_result,
                   ret, listing, outcome>>
save_tracking(o) ==
    /\ pc[o] = "save_tracking"
    /\ sent_posts' = [sent_posts EXCEPT ![o] = Trim(sent_posts[o])]
    /\ blobTracking' = Trim(sent_posts[o])
    /\ evicted' = (evicted \/ Len(sent_posts[o]) > MaxTracked)
    /\ ops' = [ops EXCEPT ![o] = Append(ops[o], "save_tracking")]
    /\ pc' = [pc EXCEPT ![o] = "save_found_posts"]
    /\ UNCHANGED <<marks, auxVars, gcs, blobPosts, found_posts, clock, role, feed, queue, llm_result,
                   ret, listing, outcome>>

\* _save_found_posts (line 569), then return True.
save_found_posts_every_mode(o) ==
    /\ pc[o] = "save_found_posts"
    /\ blobPosts' = found_posts
    /\ ops' = [ops EXCEPT ![o] = Append(ops[o], "save_found_posts")]
    /\ ret' = [ret EXCEPT ![o] = TRUE]
    /\ pc' = [pc EXCEPT ![o] = "next"]
    /\ UNCHANGED <<marks, auxVars, gcs, blobTracking, found_posts, clock, role, sent_posts, feed, queue,
                   llm_result, listing, outcome, evicted>>
save_found_posts(o) ==
    /\ pc[o] = "save_found_posts"
    /\ blobPosts' = IF gcs THEN found_posts ELSE blobPosts
    /\ ops' = [ops EXCEPT ![o] = Append(ops[o], "save_found_posts")]
    /\ ret' = [ret EXCEPT ![o] = TRUE]
    /\ pc' = [pc EXCEPT ![o] = "next"]
    /\ UNCHANGED <<marks, auxVars, gcs, blobTracking, found_posts, clock, role, sent_posts, feed, queue,
                   llm_result, listing, outcome, evicted>>

\* run_once, lines 587-596: on to the next post, or the feed is finished.
run_once_next_error_ends_feed(o) ==
    /\ pc[o] = "next"
    /\ queue' = [queue EXCEPT ![o] =
                    IF IsDict(llm_result[o]) THEN Tail(queue[o]) ELSE <<>>]
    /\ llm_result' = [llm_result EXCEPT ![o] = NotQueried]
    /\ outcome' = [outcome EXCEPT ![o] = ""]
    /\ ret' = [ret EXCEPT ![o] = FALSE]
    /\ ops' = [ops EXCEPT ![o] = <<>>]
    /\ IF Tail(queue[o]) = <<>> \/ ~IsDict(llm_result[o])
       THEN FeedDone(o)
       ELSE /\ pc' = [pc EXCEPT ![o] = "check"]
            /\ UNCHANGED <<feed, sent_posts, listing>>
    /\ UNCHANGED <<marks, auxVars, gcs, blobTracking, blobPosts, found_posts, clock, role, evicted>>
run_once_next(o) ==
    /\ pc[o] = "next"
    /\ queue' = [queue EXCEPT ![o] = Tail(queue[o])]
    /\ llm_result' = [llm_result EXCEPT ![o] = NotQueried]
    /\ outcome' = [outcome EXCEPT ![o] = ""]
    /\ ret' = [ret EXCEPT ![o] = FALSE]
    /\ ops' = [ops EXCEPT ![o] = <<>>]
    /\ IF Tail(queue[o]) = <<>>
       THEN FeedDone(o)
       ELSE /\ pc' = [pc EXCEPT ![o] = "check"]
            /\ UNCHANGED <<feed, sent_posts, listing>>
    /\ UNCHANGED <<marks, auxVars, gcs, blobTracking, blobPosts, found_posts, clock, role, evicted>>

\* run_forever, lines 615-616: the sleep ends and the next cycle starts.
run_forever_wake(o) ==
    /\ pc[o] = "sleep"
    /\ pc' = [pc EXCEPT ![o] = "fetch"]
    /\ UNCHANGED <<marks, auxVars, gcs, blobTracking, blobPosts, found_posts, clock, role, orchVars,
                   evicted>>

\* load_posts_on_startup: cloud mode reads the stored "posts" into found_posts.
load_posts_on_startup == IF gcs THEN blobPosts ELSE <<>>

\* The process dies at any point and main() runs again: memory is lost, the
\* stored files are kept.
CrashRestart ==
    /\ \E o \in Orchs : pc[o] \notin {"none", "new"}
    /\ found_posts' = load_posts_on_startup
    /\ pc' = BootPc(gcs)
    /\ role' = BootRole(gcs)
    /\ sent_posts' = Fresh(<<>>)
    /\ feed' = Fresh(1)
    /\ queue' = Fresh(<<>>)
    /\ llm_result' = Fresh(NotQueried)
    /\ ret' = Fresh(FALSE)
    /\ ops' = Fresh(<<>>)
    /\ listing' = Fresh(<<>>)
    /\ outcome' = Fresh("")
    /\ UNCHANGED <<marks, auxVars, gcs, blobTracking, blobPosts, clock, evicted>>

\* The mark, stamped by a clock that does not run backwards.
Mark(o) == process_post_mark(o, Readings) /\ UNCHANGED marks

\* One orchestrator at a time: no other thread exists when /scan is requested.
Alone(o) == \A p \in Orchs \ {o} : pc[p] = "none"

Step(o) ==
    \/ Construct(o)
    \/ Fetch(o, Served(Listings))
    \/ process_post_check(o)
    \/ process_post_query(o, BackendOutcomes)
    \/ process_post_append(o, Profiles)
    \/ Mark(o)
    \/ save_tracking(o)
    \/ save_found_posts(o)
    \/ run_once_next(o)
    \/ run_forever_wake(o)

\* Cycles one after the other, with restarts: local mode runs the background
\* loop, cloud mode runs one /scan cycle at a time.
SeqScan(o) ==
    /\ Alone(o)
    /\ \E req \in Requests : scan(o, req)
    /\ UNCHANGED response

Next ==
    \/ \E o \in Orchs : SeqScan(o)
    \/ \E o \in Orchs : Step(o)
    \/ CrashRestart

Spec == Init /\ [][Next]_vars

\* ------------------------------------------------------------- the ledger alone

\* Stamps are ISO strings of local time and are compared as strings: across the
\* end of daylight saving time a later reading compares lower, so the stamps of
\* successive marks come in any order.
AnyReading == 0..MaxClock

\* One orchestrator marks and persists one new identifier after the other.
InitLedger ==
    /\ gcs \in BOOLEAN
    /\ blobTracking = <<>>
    /\ blobPosts = <<>>
    /\ found_posts = <<>>
    /\ clock = 0
    /\ evicted = FALSE
    /\ pc = [o \in Orchs |-> IF o = "o1" THEN "next" ELSE "none"]
    /\ role = Fresh("scan")
    /\ sent_posts = Fresh(<<>>)
    /\ feed = Fresh(1)
    /\ queue = Fresh(<<>>)
    /\ llm_result = Fresh(NotQueried)
    /\ ret = Fresh(FALSE)
    /\ ops = Fresh(<<>>)
    /\ listing = Fresh(<<>>)
    /\ outcome = Fresh("")
    /\ marks = <<>>
    /\ AuxInit

\* The next post, with an identifier not marked before, reaches line 567.
LedgerNextPost ==
    /\ pc["o1"] = "next"
    /\ Len(marks) < MaxMarks
    /\ queue' = [queue EXCEPT !["o1"] = <<PostOf(Child(Len(marks) + 1))>>]
    /\ pc' = [pc EXCEPT !["o1"] = "mark"]
    /\ UNCHANGED <<marks, auxVars, gcs, blobTracking, blobPosts, found_posts, clock, role,
                   sent_posts, feed, llm_result, ret, ops, listing, outcome,
                   evicted>>

LedgerMark ==
    /\ process_post_mark("o1", AnyReading)
    /\ marks' = Append(marks, Entry(Post("o1").id, clock'))

LedgerSaveTracking == save_tracking("o1")

LedgerSaveFoundPosts == save_found_posts("o1")

NextLedger ==
    \/ LedgerNextPost
    \/ LedgerMark
    \/ LedgerSaveTracking
    \/ LedgerSaveFoundPosts

SpecLedger == InitLedger /\ [][NextLedger]_vars

\* ------------------------------------------------------------- overlapping cycles

\* What the feeds return while two cycles overlap.
RaceListings == {<<1>>, <<2>>}

\* How the classifier answers while two cycles overlap.
RaceOutcomes ==
    {out \in BackendOutcomes : out.kind \in {"json", "timeout"}}

RaceStep(o) ==
    \/ Construct(o)
    \/ Fetch(o, Served(RaceListings))
    \/ process_post_check(o)
    \/ process_post_query(o, RaceOutcomes)
    \/ process_post_append(o, {NoProfile})
    \/ Mark(o)
    \/ save_tracking(o)
    \/ save_found_posts(o)
    \/ run_once_next(o)
    \/ run_forever_wake(o)

\* /scan is requested at any time: the cycle it starts overlaps the cycle of the
\* background loop (local mode) or of an earlier request (cloud mode).
RaceScan(o) == (\E req \in Requests : scan(o, req)) /\ UNCHANGED response

NextRace ==
    \/ \E o \in Orchs : RaceScan(o)
    \/ \E o \in Orchs : RaceStep(o)

SpecRace == Init /\ [][NextRace]_vars

\* ------------------------------------------------------------- the trigger

\* The endpoint with and without a configured secret; every cycle finds its
\* feeds empty, so that threads end and later requests find a free thread.
InitTrigger ==
    /\ InitProgram
    /\ SCAN_AUTH_TOKEN \in {<<>>, Secret}
    /\ response = NoResponse
    /\ fetches = <<>>
    /\ call = NoCall
    /\ TokenInit

\* One request to /scan and the response it gets.
TriggerScan(o) ==
    \E req \in Requests :
        /\ scan(o, req)
        /\ response' = [status |-> StatusOf(req), header |-> req.header,
                        token |-> req.token]

TriggerConstruct(o) == Construct(o)
TriggerFetch(o) == Fetch(o, Served({<<>>}))
TriggerWake(o) == run_forever_wake(o)

NextTrigger ==
    \/ \E o \in Orchs : TriggerScan(o)
    \/ \E o \in Orchs : TriggerConstruct(o)
    \/ \E o \in Orchs : TriggerFetch(o)
    \/ \E o \in Orchs : TriggerWake(o)

SpecTrigger == InitTrigger /\ [][NextTrigger]_vars

\* ------------------------------------------------------------- the trigger's answer

\* Requests with the secret in the header, and with no token at all.
ScanRequests == {[header |-> Str(Secret), token |-> None], [header |-> None, token |-> None]}

\* The body of the response, lines 1019-1023, or that of abort(401).
BodyOf(req) ==
    IF Unauthorized(req)
    THEN [status |-> 401]
    ELSE [status |-> 200, message |-> "Scan started", posts_found |-> Len(found_posts)]

\* One request to /scan and the response it gets.
ScanAnswered(o) ==
    \E req \in ScanRequests :
        /\ scan(o, req)
        /\ response' = BodyOf(req)

\* The cycles, each finding one post that the classifier accepts or fails on.
ScanStep(o) ==
    \/ Construct(o)
    \/ Fetch(o, Served({<<1>>}))
    \/ process_post_check(o)
    \/ process_post_query(o, RaceOutcomes)
    \/ process_post_append(o, {NoProfile})
    \/ Mark(o)
    \/ save_tracking(o)
    \/ save_found_posts(o)
    \/ run_once_next(o)
    \/ run_forever_wake(o)

NextScan ==
    \/ \E o \in Orchs : ScanAnswered(o)
    \/ \E o \in Orchs : ScanStep(o)

SpecScan == InitTrigger /\ [][NextScan]_vars

\* ------------------------------------------------------------- single calls

\* What the requests of one fetch end in, one outcome for each attempt there
\* can be and one more.
FetchInputs == [1..(FeedAttempts + 1) -> FeedOutcomes({<<1>>})]

\* What the requests of one call of the hosted backend end in.
GeminiInputs == [1..(GeminiAttempts + 1) -> BackendOutcomes]

\* The replies of the local backend.
Replies == UNION {[1..n -> Units] : n \in 0..MaxText}

Calls ==
    {[fn |-> "_fetch_reddit_json", input |-> i, done |-> FALSE] : i \in FetchInputs}
    \cup {[fn |-> "_query_llm gemini", input |-> i, done |-> FALSE] : i \in GeminiInputs}
    \cup {[fn |-> "_query_llm local", input |-> i, done |-> FALSE] : i \in Replies}

\* One call of one function, in local mode, before any cycle.
InitCalls ==
    /\ InitProgram
    /\ ~gcs
    /\ SCAN_AUTH_TOKEN = <<>>
    /\ response = NoResponse
    /\ fetches = <<>>
    /\ call \in Calls
    /\ TokenInit

\* The call with its result.
Returned(result) ==
    [fn |-> call.fn, input |-> call.input, done |-> TRUE, result |-> result]

CallFetch ==
    /\ call.fn = "_fetch_reddit_json" /\ ~call.done
    /\ call' = Returned(fetch_reddit_json_result(call.input))
    /\ UNCHANGED <<programVars, marks, SCAN_AUTH_TOKEN, tokenVars, response, fetches>>

CallGemini ==
    /\ call.fn = "_query_llm gemini" /\ ~call.done
    /\ call' = Returned(query_llm_gemini(call.input))
    /\ UNCHANGED <<programVars, marks, SCAN_AUTH_TOKEN, tokenVars, response, fetches>>

CallLocal ==
    /\ call.fn = "_query_llm local" /\ ~call.done
    /\ call' = Returned(query_llm_local(call.input))
    /\ UNCHANGED <<programVars, marks, SCAN_AUTH_TOKEN, tokenVars, response, fetches>>

NextCalls == CallFetch \/ CallGemini \/ CallLocal

SpecCalls == InitCalls /\ [][NextCalls]_vars

\* ------------------------------------------------------------- one cycle with failures

\* What a request to a feed ends in while failures are studied: a server error,
\* a timeout, a body without data.children, or a listing of two posts.
CycleFeedOutcomes ==
    {[kind |-> k, children |-> <<>>] : k \in {"500", "timeout", "no children"}}
    \cup {[kind |-> "ok", children |-> <<1, 2>>]}

\* The first request ends one way and every later one another way.
CycleFetchInputs ==
    {outs \in [1..(FeedAttempts + 1) -> CycleFeedOutcomes] :
        \A k \in 3..(FeedAttempts + 1) : outs[k] = outs[2]}

\* The local backend replies with an accepting verdict or with a number.
CycleOutcomes ==
    {[kind |-> "json", value |-> v] :
        v \in {Verdict(BothKeys, "true", AcceptReason), JsonNumber}}

\* The fetch, recorded in the history of the fetches of the cycle.
CycleFetch(o) ==
    \E outs \in CycleFetchInputs :
        /\ fetch_reddit_json(o, {outs})
        /\ fetches' = (IF feed[o] = 1 THEN <<>> ELSE fetches)
                      \o <<[feed |-> feed[o],
                            kind |-> fetch_reddit_json_with_retry(outs).out.kind]>>

CycleStep(o) ==
    \/ Construct(o)
    \/ CycleFetch(o)
    \/ process_post_check(o)
    \/ process_post_query(o, CycleOutcomes)
    \/ process_post_append(o, Profiles)
    \/ Mark(o)
    \/ save_tracking(o)
    \/ save_found_posts(o)
    \/ run_once_next(o)
    \/ run_forever_wake(o)

NextCycle ==
    \/ \E o \in Orchs : SeqScan(o)
    \/ \E o \in Orchs : CycleStep(o)

SpecCycle == Init /\ [][NextCycle]_vars

\* ------------------------------------------------------------- replies off the schema

\* Cycles, one at a time, whose backend also returns objects that the
\* response schema it was sent (lines 384-399, 445-463) does not allow.
VerdictStep(o) ==
    \/ Construct(o)
    \/ Fetch(o, Served({<<1>>}))
    \/ process_post_check(o)
    \/ process_post_query(o, LooseOutcomes)
    \/ process_post_append(o, {NoProfile})
    \/ Mark(o)
    \/ save_tracking(o)
    \/ save_found_posts(o)
    \/ run_once_next(o)
    \/ run_forever_wake(o)

NextVerdict ==
    \/ \E o \in Orchs : SeqScan(o)
    \/ \E o \in Orchs : VerdictStep(o)

SpecVerdict == Init /\ [][NextVerdict]_vars

\* ------------------------------------------------------------- failing loads

\* _load_from_gcs, and the local branch of _load_tracking: what was stored,
\* or {} when reading or parsing it raised.
load_or_empty(stored, raised) == IF raised THEN <<>> ELSE stored

\* FragranceScout.__init__ where each of the two loads can fail.
ConstructLoading(o) ==
    /\ pc[o] = "new"
    /\ \E raisedTracking \in BOOLEAN, raisedPosts \in BOOLEAN :
         /\ sent_posts' = [sent_posts EXCEPT ![o] = load_or_empty(load_tracking, raisedTracking)]
         /\ found_posts' = IF gcs THEN load_or_empty(blobPosts, raisedPosts) ELSE found_posts
    /\ feed' = [feed EXCEPT ![o] = 1]
    /\ pc' = [pc EXCEPT ![o] = "fetch"]
    /\ UNCHANGED <<marks, auxVars, gcs, blobTracking, blobPosts, clock, role, queue, llm_result, ret,
                   ops, listing, outcome, evicted>>

LoadStep(o) ==
    \/ ConstructLoading(o)
    \/ Fetch(o, Served(RaceListings))
    \/ process_post_check(o)
    \/ process_post_query(o, RaceOutcomes)
    \/ process_post_append(o, {NoProfile})
    \/ Mark(o)
    \/ save_tracking(o)
    \/ save_found_posts(o)
    \/ run_once_next(o)
    \/ run_forever_wake(o)

\* One cycle at a time, with restarts.
NextLoad ==
    \/ \E o \in Orchs : SeqScan(o)
    \/ \E o \in Orchs : LoadStep(o)
    \/ CrashRestart

SpecLoad == Init /\ [][NextLoad]_vars

\* ------------------------------------------------------------- the scheduling loop

\* A statement of run_once outside its try block (lines 576-585, 596-599)
\* raises an exception, a MemoryError for one, in the background loop.
run_once_raises(o) ==
    /\ pc[o] = "fetch"
    /\ role[o] = "bg"
    /\ Abort(o)
    /\ outcome' = [outcome EXCEPT ![o] = "cycle raised"]
    /\ UNCHANGED <<marks, auxVars, gcs, blobTracking, blobPosts, found_posts, clock, role,
                   llm_result, ret, ops, evicted>>

\* What the requests to a feed end in while the loop is studied.
LoopFetchInputs ==
    Served(RaceListings)
    \cup {[k \in 1..(FeedAttempts + 1) |-> [kind |-> "timeout", children |-> <<>>]]}

LoopStep(o) ==
    \/ Construct(o)
    \/ Fetch(o, LoopFetchInputs)
    \/ process_post_check(o)
    \/ process_post_query(o, RaceOutcomes)
    \/ process_post_append(o, {NoProfile})
    \/ Mark(o)
    \/ save_tracking(o)
    \/ save_found_posts(o)
    \/ run_once_next(o)
    \/ run_forever_wake(o)
    \/ run_once_raises(o)

NextLoop == \E o \in Orchs : LoopStep(o)

\* Local mode; the thread of the loop is scheduled again and again, and every
\* request and sleep of it ends.
InitLoop == InitProgram /\ ~gcs /\ AuxInit

SpecLoop == InitLoop /\ [][NextLoop]_vars /\ WF_vars(NextLoop)

\* ------------------------------------------------------------- the OAuth token

\* The 300 seconds of line 215, in units of 150 seconds.
RefreshMargin == 2

\* expires_in of the token endpoint's answer, in the same units: a lifetime
\* shorter than the margin and one longer (Reddit answers 3600 or 86400 s).
ExpiresIn == {1, 3}

\* How the request for a token ends: an exception (network, HTTP status, body
\* without access_token), or an answer with a token.
TokenOutcomes ==
    {[ok |-> FALSE, expires_in |-> 0]} \cup {[ok |-> TRUE, expires_in |-> x] : x \in ExpiresIn}

\* _get_reddit_oauth_token: the token and its expiry afterwards.
get_reddit_oauth_token_keeps_stale(tok, expires, t, out) ==
    IF out.ok
    THEN [token |-> Token(t), expires |-> t + out.expires_in]
    ELSE [token |-> tok, expires |-> expires]
get_reddit_oauth_token(tok, expires, t, out) ==
    IF out.ok
    THEN [token |-> Token(t), expires |-> t + out.expires_in]
    ELSE [token |-> NoToken, expires |-> expires]

\* The condition of line 215.
RefreshDue(tok, expires, t) == ~tok.held \/ t > expires - RefreshMargin

\* _ensure_reddit_token
ensure_reddit_token(tok, expires, t, out) ==
    IF RefreshDue(tok, expires, t)
    THEN get_reddit_oauth_token(tok, expires, t, out)
    ELSE [token |-> tok, expires |-> expires]

\* __init__, lines 114-117: a new orchestrator has no token and asks for one
\* when credentials are configured.
init_token(o) ==
    /\ \E out \in TokenOutcomes :
         LET got == IF REDDIT_CREDENTIALS
                    THEN get_reddit_oauth_token(NoToken, 0, time, out)
                    ELSE [token |-> NoToken, expires |-> 0]
         IN /\ reddit_token' = [reddit_token EXCEPT ![o] = got.token]
            /\ reddit_token_expires' = [reddit_token_expires EXCEPT ![o] = got.expires]
    /\ UNCHANGED <<programVars, marks, SCAN_AUTH_TOKEN, response, fetches, call,
                   REDDIT_CREDENTIALS, time, request>>

\* _fetch_reddit_json_with_retry, lines 292-299: one request to Reddit, with
\* the Authorization header when a token is held after _ensure_reddit_token.
authenticated_request(o) ==
    /\ \E out \in TokenOutcomes :
         LET due == REDDIT_CREDENTIALS
                    /\ RefreshDue(reddit_token[o], reddit_token_expires[o], time)
             got == IF REDDIT_CREDENTIALS
                    THEN ensure_reddit_token(reddit_token[o], reddit_token_expires[o],
                                             time, out)
                    ELSE [token |-> reddit_token[o], expires |-> reddit_token_expires[o]]
         IN /\ reddit_token' = [reddit_token EXCEPT ![o] = got.token]
            /\ reddit_token_expires' = [reddit_token_expires EXCEPT ![o] = got.expires]
            /\ request' = [n |-> 1 - request.n, o |-> o, held |-> reddit_token[o],
                           refresh |-> due, refreshed |-> due /\ out.ok,
                           bearer |-> IF REDDIT_CREDENTIALS THEN got.token ELSE NoToken]
    /\ UNCHANGED <<programVars, marks, SCAN_AUTH_TOKEN, response, fetches, call,
                   REDDIT_CREDENTIALS, time>>

\* Time passes.
Tick ==
    /\ time < MaxTime
    /\ time' = time + 1
    /\ UNCHANGED <<programVars, marks, SCAN_AUTH_TOKEN, response, fetches, call,
                   REDDIT_CREDENTIALS, reddit_token, reddit_token_expires, request>>

\* Orchestrators with and without Reddit credentials, before their __init__
\* reaches line 116.
InitToken ==
    /\ InitProgram
    /\ ~gcs
    /\ SCAN_AUTH_TOKEN = <<>>
    /\ response = NoResponse
    /\ fetches = <<>>
    /\ call = NoCall
    /\ REDDIT_CREDENTIALS \in BOOLEAN
    /\ reddit_token = Fresh(NoToken)
    /\ reddit_token_expires = Fresh(0)
    /\ time = 0
    /\ request = NoRequest

NextToken ==
    \/ \E o \in Orchs : init_token(o)
    \/ \E o \in Orchs : authenticated_request(o)
    \/ Tick

SpecToken == InitToken /\ [][NextToken]_vars

\* ------------------------------------------------------------- properties

IsPrefix(a, b) == Len(a) <= Len(b) /\ SubSeq(b, 1, Len(a)) = a
FailureKinds == {"error", "timeout", "quota", "malformed"}
Crashed(o) == pc'[o] \in {"none", "new"}

\* The link of the AcceptedItem of a post, and how many items of a list have it.
LinkOf(id) == PostOf(Child(id)).link
CountOf(id, posts) == Cardinality({k \in DOMAIN posts : posts[k].link = LinkOf(id)})

\* The post_data of the post an orchestrator is processing is the last of a list.
IsItemOf(o, posts) ==
    /\ posts # <<>>
    /\ LET item == posts[Len(posts)]
           id == Post(o).id
       IN /\ item.title = <<"R","e","v","i","e","w"," ", ToString(id)>>
          /\ item.body = <<"o","a","k"," ", ToString(id)>>
          /\ item.reason = llm_result[o].reason
          /\ item.reason = AcceptReason
          /\ item.link = LinkOf(id)

\* C1: when the classifier accepts a post whose identifier is not in the ledger,
\* found_posts is extended by exactly one item, which has the post's title, its
\* body without markup and the verdict's reason: the append adds it and no other
\* step of the pass changes the list; and when _process_post returns True the
\* identifier is in the orchestrator's ledger and in the tracking file (and, in
\* cloud mode, the stored list is found_posts).
C1_AcceptStoresAndMarks ==
    /\ [](\A o \in Orchs :
            pc[o] = "next" /\ (ret[o] \/ llm_result[o].interesting = "true") =>
                /\ ret[o]
                /\ IsItemOf(o, found_posts)
                /\ Post(o).id \in IdsOf(sent_posts[o])
                /\ Post(o).id \in IdsOf(blobTracking)
                /\ gcs => blobPosts = found_posts)
    /\ [][\A o \in Orchs :
            /\ pc[o] = "query" /\ outcome'[o] = "json"
               /\ llm_result'[o].interesting = "true" => pc'[o] = "store"
            /\ pc[o] = "store" /\ ~Crashed(o) =>
                 /\ Len(found_posts') = Len(found_posts) + 1
                 /\ IsPrefix(found_posts, found_posts')
                 /\ IsItemOf(o, found_posts')
            /\ pc[o] \in {"check", "query", "mark", "save_tracking", "save_found_posts"}
               /\ ~Crashed(o) => found_posts' = found_posts]_vars

\* C1's case: an accepted post has just been stored and marked, in a ledger
\* that was already full.
C1_Witness ==
    \E o \in Orchs :
        /\ pc[o] = "next" /\ ret[o] /\ evicted
        /\ Len(found_posts) >= 2

\* C2: the classifier is called only for identifiers that are not in the
\* orchestrator's ledger; a post whose identifier is in it returns False at the
\* dedupe check, with no classifier call and both stores and the ledger as they
\* were; and the identifier a pass has added is in the ledger when the pass
\* returns and is still there when the next pass starts, so the same post again
\* adds nothing.
C2_Idempotent ==
    /\ [](\A o \in Orchs :
            /\ pc[o] \in {"query", "store", "mark"} =>
                 Post(o).id \notin IdsOf(sent_posts[o])
            /\ pc[o] = "next" /\ ret[o] => Post(o).id \in IdsOf(sent_posts[o]))
    /\ [][\A o \in Orchs :
            /\ pc[o] = "check" /\ Post(o).id \in IdsOf(sent_posts[o]) /\ ~Crashed(o) =>
                 /\ pc'[o] = "next"
                 /\ ~ret'[o]
                 /\ outcome'[o] = ""
                 /\ UNCHANGED <<found_posts, blobPosts, blobTracking, sent_posts>>
            /\ pc[o] = "next" /\ pc'[o] \in {"check", "fetch", "sleep"} =>
                 sent_posts'[o] = sent_posts[o]
            /\ pc[o] \in {"fetch", "sleep"} /\ ~Crashed(o) =>
                 sent_posts'[o] = sent_posts[o]]_vars

\* C2's case: in local mode the post this orchestrator added last comes again and
\* has returned at the dedupe check.
C2_Witness ==
    \E o \in Orchs :
        /\ ~gcs /\ pc[o] = "next" /\ outcome[o] = "" /\ ~ret[o]
        /\ found_posts # <<>>
        /\ found_posts[Len(found_posts)].link = LinkOf(Post(o).id)

\* C3: as long as no _save_tracking has dropped entries, a post whose identifier
\* is in the tracking file is never given to the classifier and never appended
\* again, whatever cycles and restarts came before.
C3_MarkedNeverAgain ==
    ~evicted =>
        /\ \A o \in Orchs :
             pc[o] \in {"query", "store", "mark"} => Post(o).id \notin IdsOf(blobTracking)
        /\ \A id \in IdsOf(blobTracking) :
             CountOf(id, found_posts) <= 1 /\ CountOf(id, blobPosts) <= 1

\* C3's case: after a restart (local mode: the list is empty again although the
\* tracking file is not), a marked post returns at the dedupe check.
C3_Witness ==
    \E o \in Orchs :
        /\ ~evicted /\ ~gcs /\ found_posts = <<>>
        /\ pc[o] = "next" /\ outcome[o] = ""
        /\ Post(o).id \in IdsOf(blobTracking)

\* C4: the operations of an accepted post come in the order append, persist of
\* the found posts, mark, persist of the ledger.
C4_PersistOrder ==
    \A o \in Orchs :
        IsPrefix(ops[o], <<"append", "save_found_posts", "mark", "save_tracking">>)

\* C5: in cloud mode, when the process has just started again, every identifier
\* of the tracking file has its item in the stored found posts.
C5_MarkedImpliesStored ==
    gcs /\ (\A o \in Orchs : pc[o] = "none") =>
        \A id \in IdsOf(blobTracking) : CountOf(id, blobPosts) >= 1

\* C6: a verdict with interesting = false ends _process_post with False and with
\* found_posts, the stored posts, the ledger and the tracking file as they were;
\* the identifier stays out of the ledger.
C6_RejectChangesNothing ==
    [][\A o \in Orchs :
         pc[o] = "query" /\ outcome'[o] = "json" /\ llm_result'[o].interesting = "false" =>
            /\ pc'[o] = "next"
            /\ ~ret'[o]
            /\ UNCHANGED <<found_posts, blobPosts, blobTracking, sent_posts>>
            /\ Post(o).id \notin IdsOf(sent_posts'[o])]_vars

\* C6's case: a rejected post, with posts found and marked before it.
C6_Witness ==
    \E o \in Orchs :
        /\ pc[o] = "next" /\ outcome[o] = "json" /\ llm_result[o].interesting = "false"
        /\ found_posts # <<>> /\ sent_posts[o] # <<>>

\* C7: a backend call that fails (error, timeouts, quota, malformed text) gives
\* None; _process_post then returns False without raising, with both stores and
\* the ledger as they were and the identifier unmarked; run_once goes on to the
\* next post; and a post that is not in the ledger goes from the dedupe check
\* to the classifier, so it is classified again when a feed returns it.
C7_AbsentSkipsUnmarked ==
    [][\A o \in Orchs :
         /\ pc[o] = "query" /\ outcome'[o] \in FailureKinds =>
              /\ llm_result'[o] = Absent
              /\ pc'[o] = "next"
              /\ ~ret'[o]
              /\ UNCHANGED <<found_posts, blobPosts, blobTracking, sent_posts, queue>>
              /\ Post(o).id \notin IdsOf(sent_posts'[o])
         /\ pc[o] = "next" /\ Len(queue[o]) > 1 /\ ~Crashed(o) =>
              pc'[o] = "check" /\ queue'[o] = Tail(queue[o])
         /\ pc[o] = "check" /\ Post(o).id \notin IdsOf(sent_posts[o]) /\ ~Crashed(o) =>
              pc'[o] = "query"]_vars

\* C7's case: the classifier timed out on a post and another post waits behind it.
C7_Witness ==
    \E o \in Orchs :
        /\ pc[o] = "next" /\ outcome[o] = "timeout" /\ llm_result[o] = Absent
        /\ Len(queue[o]) > 1

\* The children of a listing whose flair has no deny-list entry: all but the
\* "Recommendation" and the "Weekly MOD Post" ones.
Passing(children) == SelectSeq(children, LAMBDA i : i \notin {RecoId, ModId})
QueueIds(o) == [k \in DOMAIN queue[o] |-> queue[o][k].id]

\* C8: a post whose flair contains a deny-list in any case, never reaches
\* the posts to process, the ledger, the tracking file or the found posts; and
\* the posts to process are all other children, those with a null or an empty
\* flair included, in the order of the listing.
C8_FlairFilter ==
    /\ [](\A o \in Orchs : \A id \in {RecoId, ModId} :
            /\ \A k \in DOMAIN queue[o] : queue[o][k].id # id
            /\ id \notin IdsOf(sent_posts[o]) \cup IdsOf(blobTracking)
            /\ CountOf(id, found_posts) = 0 /\ CountOf(id, blobPosts) = 0)
    /\ [][\A o \in Orchs :
            pc[o] = "fetch" /\ pc'[o] = "check" =>
                QueueIds(o)' = Passing(listing'[o])]_vars

\* C8's case: a listing with a "Weekly MOD Post" child before a child with a
\* null flair, of which the second is being classified.
C8_Witness ==
    \E o \in Orchs :
        /\ listing[o] = <<ModId, 1>>
        /\ pc[o] = "query" /\ Post(o).id = 1

Min(a, b) == IF a < b THEN a ELSE b
Kept == sent_posts["o1"]
Dropped == {k \in DOMAIN marks : marks[k].id \notin IdsOf(Kept)}

\* C9: after n marks of distinct identifiers, each followed by _save_tracking,
\* the ledger and the tracking file hold the same min(n, MaxTracked) entries,
\* all of them marked entries, and no dropped entry has a later stamp than a
\* kept one; after MaxTracked + 1 marks exactly one entry is dropped, and its
\* stamp is the lowest of all.
C9_KeepsMostRecent ==
    pc["o1"] \in {"save_found_posts", "next"} =>
        /\ Len(Kept) = Min(Len(marks), MaxTracked)
        /\ blobTracking = Kept
        /\ \A k \in DOMAIN Kept : \E m \in DOMAIN marks : marks[m] = Kept[k]
        /\ \A k \in DOMAIN Kept : \A m \in Dropped : marks[m].ts <= Kept[k].ts
        /\ Len(marks) = MaxTracked + 1 =>
             /\ Cardinality(Dropped) = 1
             /\ \A d \in Dropped : \A m \in DOMAIN marks : marks[d].ts <= marks[m].ts

\* C9's case: one mark more than the capacity, persisted, and the entry dropped
\* is not the one marked first.
C9_Witness ==
    /\ pc["o1"] = "next"
    /\ Len(marks) = MaxTracked + 1
    /\ evicted
    /\ 1 \notin Dropped

\* C10: found_posts and the stored posts only ever grow at the end: every step
\* leaves each of them a prefix of what it becomes.
C10_AppendOnly ==
    [][IsPrefix(found_posts, found_posts') /\ IsPrefix(blobPosts, blobPosts')]_vars

\* C11: in local mode, while no _save_tracking has dropped entries, found_posts
\* holds at most one item of each post, however the cycle of the background
\* loop and the cycle of a /scan request interleave.
C11_NoDuplicateUnderRace ==
    ~gcs /\ ~evicted => \A id \in PassIds : CountOf(id, found_posts) <= 1

\* A thread is started by this step.
Launched == \E o \in Orchs : pc[o] = "none" /\ pc'[o] = "new"
Presented(r) == Or(r.header, r.token)

\* C13: with a secret configured, a request whose token (header first, then
\* query parameter) is missing or differs from it gets 401 and starts no
\* thread, and every thread /scan starts was started by a request that
\* presented the secret; with no secret configured every request gets 200
\* and starts a thread.
C13_TriggerAuth ==
    [][/\ response' # response =>
            /\ response'.status \in {200, 401}
            /\ response'.status = 401 <=>
                  (SCAN_AUTH_TOKEN # <<>>
                   /\ Presented(response') # Str(SCAN_AUTH_TOKEN))
            /\ response'.status = 401 => UNCHANGED <<pc, role>>
            /\ response'.status = 200 => Launched
       /\ Launched =>
            /\ response'.status = 200
            /\ SCAN_AUTH_TOKEN # <<>> => Presented(response') = Str(SCAN_AUTH_TOKEN)
            /\ \E o \in Orchs : pc'[o] = "new" /\ role'[o] = "scan"]_vars

\* C13's case: with a secret configured, a request with no token at all was
\* refused after a request with the secret in the query parameter had started a
\* cycle that is still running.
C13_Witness ==
    /\ SCAN_AUTH_TOKEN = Secret
    /\ response.status = 401
    /\ Presented(response).isNone
    /\ \E o \in Orchs : pc[o] = "fetch" /\ role[o] = "scan"

Done(fn) == call.fn = fn /\ call.done

\* C14: a call of the hosted backend whose first request ends in a quota or
\* 429 error makes that one request and gives None; a request is repeated only
\* after a transient error (a server error or a timeout), and at most
\* GeminiAttempts requests are made.
C14_QuotaIsTerminal ==
    Done("_query_llm gemini") =>
        /\ call.result.requests <= GeminiAttempts
        /\ call.input[1].kind = "quota" =>
             call.result.requests = 1 /\ call.result.value = Absent
        /\ \A k \in 1..(call.result.requests - 1) :
             call.input[k].kind \in {"error", "timeout"}

\* The first balanced object of a text: from its first "{" to the "}" that
\* closes it; <<>> if there is none.
RECURSIVE ClosingIdx(_, _, _)
ClosingIdx(t, k, depth) ==
    IF k > Len(t) THEN 0
    ELSE IF t[k] = "{" THEN ClosingIdx(t, k + 1, depth + 1)
    ELSE IF t[k] = "}" THEN (IF depth = 1 THEN k ELSE ClosingIdx(t, k + 1, depth - 1))
    ELSE ClosingIdx(t, k + 1, depth)
FirstBalanced(t) ==
    LET i == FirstIdx(t, "{")
        j == IF i = 0 THEN 0 ELSE ClosingIdx(t, i + 1, 1)
    IN IF j = 0 THEN <<>> ELSE SubSeq(t, i, j)
WellFormedVerdict(t) == json_loads(t).ok /\ Truthy(json_loads(t).value)

\* C15: when the reply, without think sections and fences, has a first balanced
\* object that is a well-formed verdict, the local backend's verdict is that
\* object, whatever text, braces or further objects surround it.
C15_FirstBalancedObject ==
    Done("_query_llm local") /\ ~FenceRaises(StripWs(RemoveThink(StripWs(call.input)))) =>
        LET first == FirstBalanced(Cleaned(call.input))
        IN WellFormedVerdict(first) => call.result = json_loads(first).value

\* C16: one fetch makes at most FeedAttempts requests to the feed; a request
\* is repeated only after a request that ended in an HTTP error, and always
\* while fewer than FeedAttempts were made; after FeedAttempts requests that
\* all ended in an HTTP error the fetch makes no further request and fails,
\* returning no posts.
C16_AtMostThreeRequests ==
    Done("_fetch_reddit_json") =>
        LET n == call.result.requests
        IN /\ n \in 1..FeedAttempts
           /\ \A k \in 1..(n - 1) : call.input[k].kind \in HTTPErrorKinds
           /\ n < FeedAttempts => call.input[n].kind \notin HTTPErrorKinds
           /\ (\A k \in 1..FeedAttempts : call.input[k].kind \in HTTPErrorKinds) =>
                 n = FeedAttempts /\ call.result.failed /\ call.result.posts = <<>>

\* C16's case: three requests ended in 429, 500 and 429, and a fourth, which
\* would have returned a listing, was not made.
C16_Witness ==
    /\ Done("_fetch_reddit_json")
    /\ [k \in 1..FeedAttempts |-> call.input[k].kind] = <<"429", "500", "429">>
    /\ call.input[FeedAttempts + 1].kind = "ok"
    /\ call.result.requests = FeedAttempts
    /\ call.result.failed

\* The failures of a request that the taxonomy calls transient.
TransientKinds == {"timeout", "connection", "500", "429"}

\* C17: a request of a fetch is repeated exactly when it ended in a transient
\* failure (a network timeout or connection error, a 5xx, a 429) and fewer
\* than FeedAttempts requests were made; a request that ended in 401 is not
\* repeated; and a fetch that failed returns no posts.
C17_ErrorTaxonomy ==
    Done("_fetch_reddit_json") =>
        LET n == call.result.requests
        IN /\ n \in 1..FeedAttempts
           /\ \A k \in 1..(n - 1) : call.input[k].kind \in TransientKinds
           /\ n < FeedAttempts => call.input[n].kind \notin TransientKinds
           /\ call.result.failed => call.result.posts = <<>>

FeedsOf(f) == [k \in DOMAIN f |-> f[k].feed]
UpTo(n) == [k \in 1..n |-> k]
InPost == {"check", "query", "store", "mark", "save_tracking", "save_found_posts", "next"}

\* C12: a fetch that failed (HTTP errors up to the last attempt, a network
\* error, a body without data.children) gives run_once no posts and no
\* exception: the step leaves the stores and the ledger alone and goes on to
\* the next feed, or ends the cycle after the last feed; and a cycle fetches
\* the feeds 1..NumFeeds in order, each once, whatever failed.
C12_FetchFailsSoft ==
    /\ [](\A o \in Orchs :
            /\ pc[o] = "fetch" /\ feed[o] > 1 => FeedsOf(fetches) = UpTo(feed[o] - 1)
            /\ pc[o] \in InPost => FeedsOf(fetches) = UpTo(feed[o])
            /\ pc[o] = "sleep" => FeedsOf(fetches) = UpTo(NumFeeds))
    /\ []((\A o \in Orchs : pc[o] = "none") /\ fetches # <<>> =>
            FeedsOf(fetches) = UpTo(NumFeeds))
    /\ [][\A o \in Orchs :
            pc[o] = "fetch" /\ fetches' # fetches =>
               LET last == fetches'[Len(fetches')]
               IN /\ last.feed = feed[o]
                  /\ pc'[o] \in {"check", AfterFeed(o, feed[o])}
                  /\ last.kind # "ok" =>
                       /\ queue'[o] = <<>>
                       /\ pc'[o] = AfterFeed(o, feed[o])
                       /\ feed[o] < NumFeeds => feed'[o] = feed[o] + 1
                       /\ UNCHANGED <<found_posts, blobPosts, blobTracking>>
                       /\ ~Ends(o) => sent_posts'[o] = sent_posts[o]]_vars

\* C12's case: the first feed timed out, the second one returned a listing and
\* its first post is at the classifier.
C12_Witness ==
    \E o \in Orchs :
        /\ FeedsOf(fetches) = UpTo(NumFeeds)
        /\ fetches[1].kind = "timeout"
        /\ fetches[NumFeeds].kind = "ok"
        /\ pc[o] = "query"

\* C18: when the processing of a post has raised, run_once processes no further
\* post of that feed: its next step goes to the next feed, or ends the cycle.
C18_ErrorEndsFeed ==
    [][\A o \in Orchs :
         pc[o] = "next" /\ ~IsDict(llm_result[o]) =>
            pc'[o] = AfterFeed(o, feed[o]) /\ queue'[o] = <<>>]_vars

\* C18, amended: when the processing of a post has raised, the exception is
\* caught in run_once, with found_posts, the stored posts, the ledger and the
\* tracking file as they were, and run_once goes on to the next post of the
\* same feed, or, after the last post, to the next feed or the end of the
\* cycle.
C18_ErrorSkipsPost ==
    [][\A o \in Orchs :
         /\ pc[o] = "query" /\ ~IsDict(llm_result'[o]) =>
              /\ pc'[o] = "next"
              /\ queue'[o] = queue[o]
              /\ UNCHANGED <<found_posts, blobPosts, blobTracking, sent_posts>>
         /\ pc[o] = "next" /\ ~IsDict(llm_result[o]) =>
              /\ Len(queue[o]) > 1 => pc'[o] = "check" /\ queue'[o] = Tail(queue[o])
              /\ Len(queue[o]) = 1 => pc'[o] = AfterFeed(o, feed[o]) /\ queue'[o] = <<>>
              /\ UNCHANGED <<found_posts, blobPosts, blobTracking>>]_vars

\* C18's case: the processing of the first post of a listing has raised and
\* another post waits behind it.
C18_Witness ==
    \E o \in Orchs :
        /\ pc[o] = "next" /\ llm_result[o] = JsonNumber
        /\ Len(queue[o]) > 1

InCycle == InPost \cup {"fetch"}

\* C19: the background loop never ends: every cycle it runs, whether run_once
\* returned or raised, is followed by the sleep, and every sleep by the first
\* fetch of another cycle.
C19_LoopNeverEnds ==
    \A o \in Orchs :
        /\ (role[o] = "bg" /\ pc[o] \in InCycle) ~> (pc[o] = "sleep")
        /\ (pc[o] = "sleep") ~> (pc[o] = "fetch" /\ feed[o] = 1)
        /\ [](role[o] = "bg" => pc[o] # "none")

\* C19's case: after a cycle that raised, the loop is in another cycle and has
\* a post at the dedupe check.
C19_Witness ==
    \E o \in Orchs :
        role[o] = "bg" /\ pc[o] = "check" /\ outcome[o] = "cycle raised"

\* C20: an accepted post is appended and marked whether or not the profile
\* fetch gave a profile: the enrichment step appends one item, whose
\* author_profile is the profile or is empty, and goes on to the mark; at the
\* persists the item is in found_posts and the identifier in the ledger.
C20_EnrichmentNeverBlocks ==
    /\ [](\A o \in Orchs :
            /\ pc[o] \in {"mark", "save_tracking", "save_found_posts"} =>
                 /\ IsItemOf(o, found_posts)
                 /\ found_posts[Len(found_posts)].author_profile \in Profiles
            /\ pc[o] \in {"save_tracking", "save_found_posts"} =>
                 Post(o).id \in IdsOf(sent_posts[o]))
    /\ [][\A o \in Orchs :
            pc[o] = "store" /\ ~Crashed(o) =>
               /\ pc'[o] = "mark"
               /\ Len(found_posts') = Len(found_posts) + 1
               /\ found_posts'[Len(found_posts')].author_profile \in Profiles]_vars

\* C20's case: the profile fetch failed, and the item, with an empty profile,
\* is stored and its identifier marked and persisted.
C20_Witness ==
    \E o \in Orchs :
        /\ pc[o] = "next" /\ ret[o]
        /\ found_posts[Len(found_posts)].author_profile = NoProfile
        /\ Post(o).id \in IdsOf(blobTracking)

\* The identifiers the orchestrator holds that the stored ledger lacks.
Lag(o) == IdsOf(sent_posts[o]) \ IdsOf(blobTracking)

\* C21: with one cycle at a time, the step after a mark is the persist of the
\* ledger (or the death of the process), and the persist writes what the
\* orchestrator holds; so the stored ledger lacks nothing the orchestrator
\* holds, except, between the mark and its persist, the post being processed.
C21_LedgerLagsByOne ==
    /\ [](\A o \in Orchs :
            /\ pc[o] = "save_tracking" => Lag(o) \subseteq {Post(o).id}
            /\ pc[o] # "save_tracking" => Lag(o) = {})
    /\ [][\A o \in Orchs :
            /\ pc[o] = "mark" /\ ~Crashed(o) => pc'[o] = "save_tracking"
            /\ pc[o] = "save_tracking" /\ ~Crashed(o) =>
                 /\ blobTracking' = sent_posts'[o]
                 /\ pc'[o] \notin {"check", "query", "store", "mark"}]_vars

\* C21's case: a second post has been marked and its persist is still to come:
\* the stored ledger holds the first post only.
C21_Witness ==
    \E o \in Orchs :
        /\ pc[o] = "save_tracking"
        /\ blobTracking # <<>>
        /\ Lag(o) = {Post(o).id}

\* Some orchestrator is between the append of an item and the persist of
\* found_posts.
Unsaved == \E o \in Orchs : pc[o] \in {"mark", "save_tracking", "save_found_posts"}

\* The steps from the append to the persist of found_posts, with no other post
\* in between.
AppendThenPersist ==
    \A o \in Orchs :
        /\ pc[o] = "store" /\ ~Crashed(o) => pc'[o] = "mark"
        /\ pc[o] = "mark" /\ ~Crashed(o) => pc'[o] = "save_tracking"
        /\ pc[o] = "save_tracking" /\ ~Crashed(o) => pc'[o] = "save_found_posts"

\* C22 as stated: in local mode as in cloud mode, once the persist that
\* follows an append is done the stored posts are the whole of found_posts.
C22_PersistedInEveryMode ==
    ~Unsaved => blobPosts = found_posts

\* C22, amended: every append is followed, before the next post, by
\* _save_found_posts, which in cloud mode writes the whole of found_posts and
\* in local mode writes nothing: in cloud mode the stored posts are the whole
\* of found_posts whenever no persist is pending, and in local mode nothing
\* is ever stored.
C22_PersistedInCloudMode ==
    /\ [](gcs /\ ~Unsaved => blobPosts = found_posts)
    /\ [](~gcs => blobPosts = <<>>)
    /\ [][AppendThenPersist]_vars
    /\ [][\A o \in Orchs :
            pc[o] = "save_found_posts" /\ ~Crashed(o) =>
               /\ pc'[o] = "next"
               /\ blobPosts' = IF gcs THEN found_posts ELSE blobPosts]_vars

\* C22's case: in cloud mode a second item has been appended and the persist
\* has written both items.
C22_Witness ==
    \E o \in Orchs :
        /\ gcs
        /\ pc[o] = "next" /\ ret[o]
        /\ Len(blobPosts) >= 2
        /\ blobPosts = found_posts

\* C23: a fetch sleeps the Retry-After of a 429 answer exactly when a retry
\* follows that answer: behind every 429 answer but that of the last request
\* of the fetch, and behind no other.
C23_WaitsOnlyBeforeRetry ==
    Done("_fetch_reddit_json") =>
        call.result.slept =
            {n \in 1..(call.result.requests - 1) : call.input[n].kind = "429"}

\* C24: with credentials configured, a request asks for a new token exactly
\* when the orchestrator holds none or the held one has less than five minutes
\* left; a request that does not ask goes with the held token; one that asks
\* and gets a token goes with the new token; one that asks and fails leaves
\* the orchestrator without a token and goes without Authorization.
C24_TokenRefresh ==
    [][\A o \in Orchs :
         request' # request /\ request'.o = o /\ REDDIT_CREDENTIALS =>
            /\ request'.refresh <=>
                  (reddit_token[o] = NoToken
                   \/ reddit_token_expires[o] - time < RefreshMargin)
            /\ ~request'.refresh =>
                  /\ request'.bearer = reddit_token[o]
                  /\ UNCHANGED <<reddit_token, reddit_token_expires>>
            /\ request'.refresh /\ request'.refreshed =>
                  /\ request'.bearer = Token(time)
                  /\ reddit_token'[o] = Token(time)
            /\ request'.refresh /\ ~request'.refreshed =>
                  /\ request'.bearer = NoToken
                  /\ reddit_token'[o] = NoToken]_vars

\* C24's case: a token was held and within the margin of its expiry, the
\* refresh failed, and the request went without Authorization.
C24_Witness ==
    /\ REDDIT_CREDENTIALS
    /\ request.n = 1
    /\ request.held # NoToken
    /\ request.refresh /\ ~request.refreshed
    /\ request.bearer = NoToken
    /\ reddit_token[request.o] = NoToken

\* C25: while cycles overlap, _save_tracking replaces the stored ledger by
\* what its own orchestrator holds, whatever was stored before.
C25_LastWriterWins ==
    [][\A o \in Orchs :
         pc[o] = "save_tracking" /\ pc'[o] = "save_found_posts" =>
            /\ blobTracking' = sent_posts'[o]
            /\ IdsOf(blobTracking') \subseteq IdsOf(sent_posts[o])]_vars

\* C25's case: no _save_tracking has dropped entries for capacity; one cycle
\* has marked and persisted an identifier and still holds it, the other cycle
\* has just persisted its own ledger, and the stored ledger lacks the
\* identifier.
C25_Witness ==
    \E o \in Orchs : \E p \in Orchs \ {o} :
        /\ ~evicted
        /\ pc[o] = "next" /\ ret[o]
        /\ pc[p] = "save_found_posts"
        /\ Post(o).id \in IdsOf(sent_posts[o])
        /\ Post(o).id \notin IdsOf(blobTracking)
        /\ IdsOf(blobTracking) = IdsOf(sent_posts[p])

\* The threads whose position this step changes.
Moved == {o \in Orchs : pc'[o] # pc[o]}

\* C26: every request answered with the dict of line 1019 starts one thread,
\* whether or not another cycle is running; the thread has not yet constructed
\* its FragranceScout when the response, with the message and the length of
\* found_posts, is returned; the FragranceScout it then constructs loads its
\* own ledger.
C26_LaunchesAndReturns ==
    /\ [][response' # response /\ response'.status = 200 => Launched]_vars
    /\ [][Launched =>
            /\ Cardinality(Moved) = 1
            /\ \A o \in Moved : pc'[o] = "new" /\ role'[o] = "scan"
            /\ response' = [status |-> 200, message |-> "Scan started",
                            posts_found |-> Len(found_posts)]
            /\ UNCHANGED <<found_posts, sent_posts, blobTracking, blobPosts>>]_vars
    /\ [][\A o \in Orchs :
            pc[o] = "new" /\ pc'[o] # "new" =>
               /\ pc'[o] = "fetch"
               /\ sent_posts'[o] = blobTracking]_vars

\* C26's case: a request was answered with a count of one while the cycle
\* that found the post was still running; the thread it started has not
\* constructed its FragranceScout yet.
C26_Witness ==
    \E o \in Orchs : \E p \in Orchs \ {o} :
        /\ response.status = 200
        /\ response.posts_found = 1
        /\ pc[o] = "new" /\ role[o] = "scan"
        /\ pc[p] \in {"mark", "save_tracking", "save_found_posts"}

\* A request has been answered while a secret was configured.
Answered == SCAN_AUTH_TOKEN # <<>> /\ response.status # 0

\* C27 as stated: a request that carries the secret in the header or in the
\* query parameter is accepted, whatever the other of the two carries.
C27_EitherPlace ==
    Answered /\ Str(SCAN_AUTH_TOKEN) \in {response.header, response.token} =>
        response.status = 200

\* C27, amended: the header is looked at first and the query parameter only
\* when the header is missing or empty; the request is accepted exactly when
\* the value so chosen is the secret.
C27_HeaderFirst ==
    Answered =>
        (response.status = 200 <=>
            IF response.header \in {None, Str(<<>>)}
            THEN response.token = Str(SCAN_AUTH_TOKEN)
            ELSE response.header = Str(SCAN_AUTH_TOKEN))

\* C27's case: a request with another text in the header and the secret in the
\* query parameter was refused.
C27_Witness ==
    /\ Answered
    /\ response.header = Str(Wrong)
    /\ response.token = Str(SCAN_AUTH_TOKEN)
    /\ response.status = 401

\* C28: a post is appended to found_posts, marked and persisted only on a
\* verdict that has both fields, with `interesting` the boolean true.
C28_AcceptedNeedsSchema ==
    \A o \in Orchs :
        pc[o] \in {"store", "mark", "save_tracking", "save_found_posts"} =>
            /\ llm_result[o].keys = BothKeys
            /\ llm_result[o].interesting = "true"

\* C29: the construction of a FragranceScout while another cycle is between
\* its append and its _save_found_posts leaves found_posts as it is, and the
\* _save_found_posts of that cycle stores a list that holds the item of its
\* post.
C29_ReloadKeepsUnsaved ==
    /\ [][(\E o \in Orchs : pc[o] = "new" /\ pc'[o] = "fetch") /\ Unsaved =>
            found_posts' = found_posts]_vars
    /\ [][\A o \in Orchs :
            gcs /\ pc[o] = "save_found_posts" /\ pc'[o] = "next" =>
               CountOf(Post(o).id, blobPosts') >= 1]_vars

\* C30: with one cycle at a time and loads that can fail, as long as no
\* _save_tracking has dropped entries for capacity, no step takes an identifier
\* out of the stored ledger or an item out of the stored posts.
C30_FailedLoadLosesNothing ==
    [][/\ ~evicted' => IdsOf(blobTracking) \subseteq IdsOf(blobTracking')
       /\ \A k \in DOMAIN blobPosts :
             \E j \in DOMAIN blobPosts' : blobPosts'[j] = blobPosts[k]]_vars

TypeOK ==
    /\ gcs \in BOOLEAN
    /\ clock \in 0..MaxClock
    /\ Len(found_posts) <= MaxPosts
    /\ \A o \in Orchs : Len(sent_posts[o]) <= MaxTracked + 1

====
